---- MODULE Spec2Model ----
(***************************************************************************)
(* LUMEModule (lume_model/torch/module.py): the adapter that exposes a     *)
(* LUME PyTorchModel as a torch Module.  forward() turns a tensor into a   *)
(* dict keyed by feature name, calls the wrapped model, and stacks the     *)
(* named outputs back into one tensor.                                     *)
(*                                                                         *)
(* Tensors are contiguous row-major: a shape and the flat data.  Python    *)
(* lists are objects on a heap, so that two references to one list see     *)
(* each other's mutations.  Python dicts are insertion-ordered sequences   *)
(* of key/value pairs.                                                     *)
(***************************************************************************)
EXTENDS Integers, Sequences, FiniteSets, TLC

VARIABLES
    heap,         \* list object id -> its current contents
    adapter,      \* adapter name -> the instance's attributes
    given,        \* adapter name -> the orderings named at construction (history)
    lastInit,     \* the last construction attempt and how it ended
    nMut,         \* number of list mutations the caller has done
    pc,           \* position inside forward()
    self,         \* the adapter forward() runs on
    x,            \* forward's argument
    model_input,  \* forward's local model_input
    y_model,      \* forward's local y_model
    y,            \* forward's return value
    err,          \* the exception forward() ended with
    nEval,        \* calls of self._model.evaluate during this forward()
    nHook         \* calls of manipulate_outcome during this forward()

vars == <<heap, adapter, given, lastInit, nMut, pc, self, x, model_input,
          y_model, y, err, nEval, nHook>>

callVars == <<pc, self, x, model_input, y_model, y, err, nEval, nHook>>

objVars == <<heap, adapter, given, lastInit, nMut>>

-----------------------------------------------------------------------------
(* Bounds *)

MaxRank == 3

MaxDim == 2

MaxLen == 2

MaxMutations == 2

Names == {"a", "b"}

Adapters == {"A1", "A2"}

Range(s) == {s[i] : i \in 1..Len(s)}

SeqsUpTo(S, n) == UNION {[1..k -> S] : k \in 0..n}

Orders == SeqsUpTo(Names, MaxLen)

\* input shapes: the leading dimensions are at least 1, the last may be 0
Shapes ==
    {s \in SeqsUpTo(0..MaxDim, MaxRank) : \A i \in 1..(Len(s) - 1) : s[i] >= 1}

-----------------------------------------------------------------------------
(* torch.Tensor *)

RECURSIVE Prod(_)
Prod(s) == IF s = <<>> THEN 1 ELSE Head(s) * Prod(Tail(s))

Front(s) == SubSeq(s, 1, Len(s) - 1)

Last(s) == s[Len(s)]

\* An input of the given shape; element i carries the marker i, so that every
\* position of the input can be told apart in the output.
TensorOfShape(s) == [shape |-> s, data |-> [i \in 1..Prod(s) |-> i]]

NoTensor == [shape |-> <<>>, data |-> <<>>]

\* x.dim()
Dim(t) == Len(t.shape)

\* x[..., idx] is an IndexError unless 0 <= idx < size of the last dimension
IndexLastOk(t, idx) == Dim(t) >= 1 /\ idx >= 0 /\ idx < Last(t.shape)

\* as x[..., idx - 1] would: the column before idx, wrapping at 0
IndexLastPrev(t, idx) ==
    LET m == Last(t.shape)
        lead == Front(t.shape)
    IN [shape |-> lead,
        data |-> [j \in 1..Prod(lead) |-> t.data[(j - 1) * m + ((idx - 1) % m) + 1]]]

\* x[..., idx]: column idx of the last axis, the leading dimensions kept
IndexLast(t, idx) ==
    LET m == Last(t.shape)
        lead == Front(t.shape)
    IN [shape |-> lead,
        data |-> [j \in 1..Prod(lead) |-> t.data[(j - 1) * m + idx + 1]]]

\* t.unsqueeze(-1)
Unsqueeze(t) == [shape |-> t.shape \o <<1>>, data |-> t.data]

\* torch.stack needs a non-empty list of tensors of one shape
StackOk(ts) == Len(ts) >= 1 /\ \A i \in 1..Len(ts) : ts[i].shape = ts[1].shape

\* as torch.stack(ts, dim=0) would: a new first axis
StackDim0(ts) ==
    LET k == Len(ts)
        s == ts[1].shape
        n == Prod(s)
    IN [shape |-> <<k>> \o s,
        data |-> [p \in 1..(n * k) |->
                    ts[((p - 1) \div n) + 1].data[((p - 1) % n) + 1]]]

\* torch.stack(ts, dim=-1): a new last axis, position i of it holding ts[i]
Stack(ts) ==
    LET k == Len(ts)
        s == ts[1].shape
    IN [shape |-> s \o <<k>>,
        data |-> [p \in 1..(Prod(s) * k) |->
                    ts[((p - 1) % k) + 1].data[((p - 1) \div k) + 1]]]

RECURSIVE DropOnes(_)
DropOnes(s) ==
    IF s = <<>> THEN <<>>
    ELSE IF Head(s) = 1 THEN DropOnes(Tail(s))
    ELSE <<Head(s)>> \o DropOnes(Tail(s))

\* as t.squeeze(-1) would: only a last dimension of size 1 removed
SqueezeLast(t) ==
    [shape |-> IF t.shape # <<>> /\ Last(t.shape) = 1 THEN Front(t.shape) ELSE t.shape,
     data |-> t.data]

\* t.squeeze(): every dimension of size 1 removed
Squeeze(t) == [shape |-> DropOnes(t.shape), data |-> t.data]

-----------------------------------------------------------------------------
(* dict *)

EmptyDict == <<>>

DictKeys(d) == {d[i].key : i \in 1..Len(d)}

DictHas(d, k) == k \in DictKeys(d)

DictGet(d, k) == d[CHOOSE i \in 1..Len(d) : d[i].key = k].val

\* d[k] = v: an existing key keeps its place, a new key goes last
DictSet(d, k, v) ==
    IF DictHas(d, k)
    THEN [i \in 1..Len(d) |-> IF d[i].key = k THEN [key |-> k, val |-> v] ELSE d[i]]
    ELSE Append(d, [key |-> k, val |-> v])

-----------------------------------------------------------------------------
(* The wrapped model: an object that may carry a .model attribute and whose *)
(* evaluate(dict) returns a dict or raises.                                 *)

ModelObjects ==
    { [attr |-> "module", kind |-> "identity", keys |-> <<>>],
      [attr |-> "module", kind |-> "outputs",  keys |-> <<"c", "b", "a">>],
      [attr |-> "none",   kind |-> "raises",   keys |-> <<>>],
      [attr |-> "absent", kind |-> "identity", keys |-> <<>>],
      [attr |-> "other",  kind |-> "identity", keys |-> <<>>] }

NoModel == [attr |-> "absent", kind |-> "raises", keys |-> <<>>]

KeyCode(k) == CASE k = "a" -> 1 [] k = "b" -> 2 [] OTHER -> 3

\* the tensor an "outputs" model returns under key k for an input with the
\* given leading dimensions: shape lead ++ <<1>>, values that name k
ModelOutput(k, lead) ==
    [shape |-> lead \o <<1>>,
     data |-> [j \in 1..Prod(lead) |-> 100 * KeyCode(k) + j]]

\* self._model.evaluate(d), called with the dict d built from input xin
ModelEvaluate(m, d, xin) ==
    CASE m.kind = "identity" -> [err |-> "none", val |-> d]
      [] m.kind = "outputs" ->
            [err |-> "none",
             val |-> [i \in 1..Len(m.keys) |->
                        [key |-> m.keys[i],
                         val |-> ModelOutput(m.keys[i], Front(xin.shape))]]]
      [] OTHER -> [err |-> "ModelError", val |-> EmptyDict]

-----------------------------------------------------------------------------
(* LUMEModule *)

ListIds == {"DefF", "DefO", "L1", "L2"}

CallerLists == {"L1", "L2"}

NotConstructed ==
    [constructed |-> FALSE, _model |-> NoModel,
     _feature_order |-> "DefF", _output_order |-> "DefO"]

NoGiven == [model |-> NoModel, feature_order |-> <<>>, output_order |-> <<>>]

\* as a register_module that took a Module only
RegisterModuleNoNone(m) ==
    CASE m.attr = "absent" -> "AttributeError"
      [] m.attr = "module" -> "ok"
      [] OTHER -> "TypeError"

\* self.register_module("base_model", self._model.model): reading .model of an
\* object without it is an AttributeError, and add_module takes a Module or None
RegisterModule(m) ==
    CASE m.attr = "absent" -> "AttributeError"
      [] m.attr = "other" -> "TypeError"
      [] OTHER -> "ok"

\* feature_order: List[str] = []  -- the one list object made when the function
\* was defined stands in for every omitted argument
DefaultFeatureOrder(arg) == IF arg = "omitted" THEN "DefF" ELSE arg

\* output_order: List[str] = []
DefaultOutputOrder(arg) == IF arg = "omitted" THEN "DefO" ELSE arg

\* the sequence an ordering argument names in the constructor call
ArgValue(arg) == IF arg = "omitted" THEN <<>> ELSE heap[arg]

\* __init__: the attributes of the new instance
InitAttributes(m, farg, oarg) ==
    [constructed |-> TRUE, _model |-> m,
     _feature_order |-> DefaultFeatureOrder(farg),
     _output_order |-> DefaultOutputOrder(oarg)]

\* LUMEModule(m, farg, oarg), bound to the name a
Construct(a, m, farg, oarg) ==
    /\ pc = "idle"
    /\ ~adapter[a].constructed
    /\ LET outcome == RegisterModule(m) IN
        /\ lastInit' = [attempted |-> TRUE, model |-> m, outcome |-> outcome]
        /\ IF outcome = "ok"
           THEN /\ adapter' = [adapter EXCEPT ![a] = InitAttributes(m, farg, oarg)]
                /\ given' = [given EXCEPT ![a] =
                                [model |-> m, feature_order |-> ArgValue(farg),
                                 output_order |-> ArgValue(oarg)]]
           ELSE UNCHANGED <<adapter, given>>
    /\ UNCHANGED <<heap, nMut>>
    /\ UNCHANGED callVars

\* the feature_order property
FeatureOrder(a) == heap[adapter[a]._feature_order]

\* the output_order property
OutputOrder(a) == heap[adapter[a]._output_order]

\* the list objects the caller holds a reference to: its own lists, and the
\* lists the properties of its adapters return
Reachable ==
    CallerLists
      \cup {adapter[a]._feature_order : a \in {b \in Adapters : adapter[b].constructed}}
      \cup {adapter[a]._output_order : a \in {b \in Adapters : adapter[b].constructed}}

\* the caller appends to a list it holds
ListAppend(l, n) ==
    /\ pc = "idle"
    /\ l \in Reachable
    /\ nMut < MaxMutations
    /\ Len(heap[l]) < MaxLen
    /\ heap' = [heap EXCEPT ![l] = Append(@, n)]
    /\ nMut' = nMut + 1
    /\ UNCHANGED <<adapter, given, lastInit>>
    /\ UNCHANGED callVars

\* the caller pops from a list it holds
ListPop(l) ==
    /\ pc = "idle"
    /\ l \in Reachable
    /\ nMut < MaxMutations
    /\ heap[l] # <<>>
    /\ heap' = [heap EXCEPT ![l] = Front(@)]
    /\ nMut' = nMut + 1
    /\ UNCHANGED <<adapter, given, lastInit>>
    /\ UNCHANGED callVars

-----------------------------------------------------------------------------
(* forward and its helpers *)

\* as a check of x.dim() < 1 would
ValidateInputScalarOnly(t) ==
    IF Dim(t) < 1
    THEN [err |-> "ValueError", val |-> NoTensor]
    ELSE [err |-> "none", val |-> t]

\* _validate_input
ValidateInput(t) ==
    IF Dim(t) <= 1
    THEN [err |-> "ValueError", val |-> NoTensor]
    ELSE [err |-> "none", val |-> t]

\* the loop of _tensor_to_dictionary from index idx (0-based) on
RECURSIVE SplitLoop(_, _, _, _)
SplitLoop(fo, t, idx, d) ==
    IF idx >= Len(fo) THEN [err |-> "none", val |-> d]
    ELSE IF ~IndexLastOk(t, idx) THEN [err |-> "IndexError", val |-> EmptyDict]
    ELSE SplitLoop(fo, t, idx + 1,
                   DictSet(d, fo[idx + 1], Unsqueeze(IndexLast(t, idx))))

\* _tensor_to_dictionary
TensorToDictionary(fo, t) == SplitLoop(fo, t, 0, EmptyDict)

\* evaluate_model
EvaluateModel(a, d, xin) == ModelEvaluate(adapter[a]._model, d, xin)

\* manipulate_outcome
ManipulateOutcome(ym) == ym

\* as stacking list(y_model.values()) would: the mapping's own order
DictionaryToTensorByPosition(oo, ym) ==
    IF \E i \in 1..Len(oo) : ~DictHas(ym, oo[i])
    THEN [err |-> "KeyError", val |-> NoTensor]
    ELSE LET ts == [i \in 1..Len(oo) |-> Unsqueeze(ym[i].val)] IN
         IF ~StackOk(ts)
         THEN [err |-> "RuntimeError", val |-> NoTensor]
         ELSE [err |-> "none", val |-> Squeeze(Stack(ts))]

\* _dictionary_to_tensor
DictionaryToTensor(oo, ym) ==
    IF \E i \in 1..Len(oo) : ~DictHas(ym, oo[i])
    THEN [err |-> "KeyError", val |-> NoTensor]
    ELSE LET ts == [i \in 1..Len(oo) |-> Unsqueeze(DictGet(ym, oo[i]))] IN
         IF ~StackOk(ts)
         THEN [err |-> "RuntimeError", val |-> NoTensor]
         ELSE [err |-> "none", val |-> Squeeze(Stack(ts))]

\* forward(x) is entered on adapter a; x = self._validate_input(x)
Validate(a, xin) ==
    /\ pc = "idle"
    /\ adapter[a].constructed
    /\ self' = a
    /\ x' = xin
    /\ LET r == ValidateInput(xin) IN
        /\ err' = r.err
        /\ pc' = IF r.err = "none" THEN "split" ELSE "raised"
    /\ model_input' = EmptyDict
    /\ y_model' = EmptyDict
    /\ y' = NoTensor
    /\ nEval' = 0
    /\ nHook' = 0
    /\ UNCHANGED objVars

\* as a split that consumed self._feature_order while walking it
SplitConsuming ==
    /\ pc = "split"
    /\ LET r == SplitLoop(heap[adapter[self]._feature_order], x, 0, EmptyDict) IN
        /\ err' = r.err
        /\ model_input' = r.val
        /\ pc' = IF r.err = "none" THEN "evaluate" ELSE "raised"
    /\ heap' = [heap EXCEPT ![adapter[self]._feature_order] = <<>>]
    /\ UNCHANGED <<self, x, y_model, y, nEval, nHook>>
    /\ UNCHANGED <<adapter, given, lastInit, nMut>>

\* model_input = self._tensor_to_dictionary(x)
Split ==
    /\ pc = "split"
    /\ LET r == TensorToDictionary(FeatureOrder(self), x) IN
        /\ err' = r.err
        /\ model_input' = r.val
        /\ pc' = IF r.err = "none" THEN "evaluate" ELSE "raised"
    /\ UNCHANGED <<self, x, y_model, y, nEval, nHook>>
    /\ UNCHANGED objVars

\* as a forward that called the model a second time when it raised
EvaluateRetry ==
    /\ pc = "evaluate"
    /\ nEval' = nEval + 1
    /\ LET r == ModelEvaluate(adapter[self]._model, model_input, x) IN
        /\ err' = r.err
        /\ y_model' = r.val
        /\ pc' = IF r.err = "none" THEN "manipulate"
                 ELSE IF nEval = 0 THEN "evaluate" ELSE "raised"
    /\ UNCHANGED <<self, x, model_input, y, nHook>>
    /\ UNCHANGED <<heap, adapter, given, lastInit, nMut>>

\* y_model = self.evaluate_model(model_input)
Evaluate ==
    /\ pc = "evaluate"
    /\ nEval' = nEval + 1
    /\ LET r == EvaluateModel(self, model_input, x) IN
        /\ err' = r.err
        /\ y_model' = r.val
        /\ pc' = IF r.err = "none" THEN "manipulate" ELSE "raised"
    /\ UNCHANGED <<self, x, model_input, y, nHook>>
    /\ UNCHANGED objVars

\* y_model = self.manipulate_outcome(y_model)
Manipulate ==
    /\ pc = "manipulate"
    /\ nHook' = nHook + 1
    /\ y_model' = ManipulateOutcome(y_model)
    /\ pc' = "reassemble"
    /\ UNCHANGED <<self, x, model_input, y, err, nEval>>
    /\ UNCHANGED objVars

\* y = self._dictionary_to_tensor(y_model).squeeze(); return y
Reassemble ==
    /\ pc = "reassemble"
    /\ LET r == DictionaryToTensor(OutputOrder(self), y_model) IN
        /\ err' = r.err
        /\ y' = IF r.err = "none" THEN Squeeze(r.val) ELSE NoTensor
        /\ pc' = IF r.err = "none" THEN "returned" ELSE "raised"
    /\ UNCHANGED <<self, x, model_input, y_model, nEval, nHook>>
    /\ UNCHANGED objVars

-----------------------------------------------------------------------------
(* Specifications *)

NoCall ==
    /\ pc = "idle"
    /\ self = "A1"
    /\ x = NoTensor
    /\ model_input = EmptyDict
    /\ y_model = EmptyDict
    /\ y = NoTensor
    /\ err = "none"
    /\ nEval = 0
    /\ nHook = 0

NoAttempt == [attempted |-> FALSE, model |-> NoModel, outcome |-> "none"]

\* the caller has the value forward() returned, or the exception it raised;
\* forward's frame is gone
Finish ==
    /\ pc \in {"returned", "raised"}
    /\ pc' = "idle"
    /\ self' = "A1"
    /\ x' = NoTensor
    /\ model_input' = EmptyDict
    /\ y_model' = EmptyDict
    /\ y' = NoTensor
    /\ err' = "none"
    /\ nEval' = 0
    /\ nHook' = 0
    /\ UNCHANGED objVars

\* Spec: adapter A1 as constructed from a model whose .model registers and two
\* caller lists; the steps of forward() on every input.
Init ==
    /\ \E f \in Orders, o \in Orders :
         heap = [l \in ListIds |->
                   CASE l = "L1" -> f [] l = "L2" -> o [] OTHER -> <<>>]
    /\ \E m \in {mo \in ModelObjects : RegisterModule(mo) = "ok"} :
         /\ adapter = [a \in Adapters |->
                         IF a = "A1" THEN InitAttributes(m, "L1", "L2")
                         ELSE NotConstructed]
         /\ given = [a \in Adapters |->
                       IF a = "A1"
                       THEN [model |-> m, feature_order |-> heap["L1"],
                             output_order |-> heap["L2"]]
                       ELSE NoGiven]
    /\ lastInit = NoAttempt
    /\ nMut = 0
    /\ NoCall

Next ==
    \/ \E a \in Adapters, s \in Shapes : Validate(a, TensorOfShape(s))
    \/ Split
    \/ Evaluate
    \/ Manipulate
    \/ Reassemble
    \/ Finish

Spec == Init /\ [][Next]_vars

\* SpecLife: the caller's program around the adapters: it constructs them, from
\* its own lists or with the orderings omitted, and mutates lists it holds.
InitLife ==
    /\ heap = [l \in ListIds |-> <<>>]
    /\ adapter = [a \in Adapters |-> NotConstructed]
    /\ given = [a \in Adapters |-> NoGiven]
    /\ lastInit = NoAttempt
    /\ nMut = 0
    /\ NoCall

NextLife ==
    \/ \E a \in Adapters, m \in ModelObjects,
          farg \in CallerLists \cup {"omitted"},
          oarg \in CallerLists \cup {"omitted"} : Construct(a, m, farg, oarg)
    \/ \E l \in ListIds, n \in Names : ListAppend(l, n)
    \/ \E l \in ListIds : ListPop(l)

SpecLife == InitLife /\ [][NextLife]_vars

-----------------------------------------------------------------------------
(* Properties *)

Final == pc \in {"returned", "raised"}

\* forward() got as far as _dictionary_to_tensor
ReachedReassembly == Final /\ nHook = 1

Distinct(s) == \A i, j \in 1..Len(s) : s[i] = s[j] => i = j

\* the tensors d holds under key k (one at most)
Named(d, k) == {d[i].val : i \in {e \in 1..Len(d) : d[e].key = k}}

\* C1: forward raises ValueError (the spec's InvalidInputError) exactly when the
\* input has rank 0 or 1; an input of rank >= 2 never ends in that error,
\* whatever its last dimension and whatever len(feature_order) is.
C1_RankCheck ==
    pc # "idle" => ((pc = "raised" /\ err = "ValueError") <=> Dim(x) <= 1)

C1_Witness == pc = "raised" /\ err = "ValueError" /\ Dim(x) = 1

\* the hypothesis of C2: x is [b, n, len(feature_order)] with b, n >= 1, and the
\* model returned a [b, n, 1] tensor under every name of output_order
C2_Hypothesis ==
    /\ ReachedReassembly
    /\ Dim(x) = 3
    /\ x.shape[1] >= 1
    /\ x.shape[2] >= 1
    /\ x.shape[3] = Len(FeatureOrder(self))
    /\ \A i \in 1..Len(OutputOrder(self)) :
          /\ DictHas(y_model, OutputOrder(self)[i])
          /\ \A t \in Named(y_model, OutputOrder(self)[i]) :
                t.shape = <<x.shape[1], x.shape[2], 1>>

\* the shape C2 names: [b, n] for one output, [b, n, k] for k outputs, without
\* the entries equal to 1
C2_Shape ==
    LET k == Len(OutputOrder(self))
        full == IF k = 1 THEN <<x.shape[1], x.shape[2]>>
                ELSE <<x.shape[1], x.shape[2], k>>
    IN SelectSeq(full, LAMBDA n : n # 1)

\* C2 as claimed: under the hypothesis forward returns a tensor of shape
\* C2_Shape, for every output_order.
C2_Original == C2_Hypothesis => (pc = "returned" /\ y.shape = C2_Shape)

\* C2, amended: under the hypothesis and with output_order not empty, forward
\* returns a tensor of shape [b, n] (one output) or [b, n, len(output_order)]
\* (several), with every dimension of size 1 removed.
C2_OutputShape ==
    (C2_Hypothesis /\ OutputOrder(self) # <<>>)
        => (pc = "returned" /\ y.shape = C2_Shape)

C2_Witness ==
    /\ C2_Hypothesis
    /\ pc = "returned"
    /\ Len(OutputOrder(self)) = 2
    /\ x.shape[1] = 1
    /\ x.shape[2] = 2

\* the hypothesis of C3: identity model, output_order = feature_order with
\* distinct names, x of rank >= 2 with len(feature_order) columns
C3_Hypothesis ==
    /\ Final
    /\ adapter[self]._model.kind = "identity"
    /\ OutputOrder(self) = FeatureOrder(self)
    /\ Distinct(FeatureOrder(self))
    /\ Dim(x) >= 2
    /\ Last(x.shape) = Len(FeatureOrder(self))

\* y holds x's values in x's positions, only dimensions of size 1 removed
C3_SameValues ==
    /\ pc = "returned"
    /\ y.shape = SelectSeq(x.shape, LAMBDA n : n # 1)
    /\ y.data = x.data

\* C3 as claimed: under the hypothesis forward returns x's values in place.
C3_Original == C3_Hypothesis => C3_SameValues

\* C3, amended: under the hypothesis and with feature_order not empty, forward
\* returns exactly the values of x in the same positions, only dimensions of
\* size 1 removed.
C3_RoundTrip == (C3_Hypothesis /\ FeatureOrder(self) # <<>>) => C3_SameValues

C3_Witness ==
    /\ C3_Hypothesis
    /\ pc = "returned"
    /\ x.shape = <<2, 2, 2>>
    /\ y.shape = <<2, 2, 2>>

\* C4: a rank >= 2 input whose last dimension differs from len(feature_order)
\* never yields a result: forward ends in an error.
C4_MismatchIsError ==
    (Final /\ Dim(x) >= 2 /\ Last(x.shape) # Len(FeatureOrder(self)))
        => pc = "raised"

C6_Original == lastInit.attempted => lastInit.outcome = "ok"

\* C6, amended: construction succeeds exactly for the model objects whose
\* .model attribute is a Module or None, for every pair of orderings (omitted
\* ones included); without the attribute it raises AttributeError, with an
\* attribute of another type TypeError.
C6_Construction ==
    lastInit.attempted =>
        /\ lastInit.model.attr \in {"module", "none"} <=> lastInit.outcome = "ok"
        /\ lastInit.model.attr = "absent" <=> lastInit.outcome = "AttributeError"
        /\ lastInit.model.attr = "other" <=> lastInit.outcome = "TypeError"
        /\ lastInit.outcome = "ok" =>
              \E a \in Adapters : adapter[a].constructed
                                    /\ adapter[a]._model = lastInit.model

C6_Witness ==
    /\ lastInit.attempted
    /\ lastInit.outcome = "ok"
    /\ lastInit.model.attr = "none"
    /\ \E a \in Adapters :
          /\ adapter[a].constructed
          /\ adapter[a]._model = lastInit.model
          /\ adapter[a]._feature_order = "DefF"
          /\ adapter[a]._output_order = "DefO"

\* the mapping handed to the model has one entry per name, and the entry of
\* feature_order[i] is column i of x with a last dimension of size 1
C7_SplitByName ==
    LET fo == FeatureOrder(self)
        m == Last(x.shape)
        lead == Front(x.shape)
    IN /\ DictKeys(model_input) = Range(fo)
       /\ Len(model_input) = Cardinality(Range(fo))
       /\ \A i \in 1..Len(fo) :
             \A t \in Named(model_input, fo[i]) :
                /\ t.shape = lead \o <<1>>
                /\ Len(t.data) = Prod(lead)
                /\ \A j \in 1..Prod(lead) : t.data[j] = x.data[(j - 1) * m + i]

\* C7 as claimed: for x of rank >= 2 with len(feature_order) columns, the
\* mapping passed to the model is C7_SplitByName.
C7_Original ==
    (pc = "evaluate" /\ Last(x.shape) = Len(FeatureOrder(self)))
        => C7_SplitByName

\* C7, amended: the same, for a feature_order whose names are pairwise
\* distinct.
C7_InputSplit ==
    (pc = "evaluate" /\ Last(x.shape) = Len(FeatureOrder(self))
        /\ Distinct(FeatureOrder(self)))
        => C7_SplitByName

C7_Witness ==
    /\ pc = "evaluate"
    /\ x.shape = <<2, 2, 2>>
    /\ FeatureOrder(self) = <<"b", "a">>

\* C8: once the model's mapping reaches reassembly: a name of output_order
\* missing from it ends forward in KeyError; otherwise position j of the new
\* last axis holds the tensor named output_order[j], wherever that key stands
\* in the mapping, and nothing else is in the result.
C8_Reassembly ==
    ReachedReassembly =>
        LET oo == OutputOrder(self)
            k == Len(oo)
            missing == \E i \in 1..k : ~DictHas(y_model, oo[i])
        IN /\ missing => (pc = "raised" /\ err = "KeyError")
           /\ pc = "returned" =>
                /\ ~missing
                /\ \A j \in 1..k : \A t \in Named(y_model, oo[j]) :
                      /\ Len(y.data) = k * Len(t.data)
                      /\ y.shape = SelectSeq(t.shape \o <<1, k>>, LAMBDA n : n # 1)
                      /\ \A p \in 1..Len(t.data) : y.data[(p - 1) * k + j] = t.data[p]

C8_Witness ==
    /\ pc = "returned"
    /\ adapter[self]._model.kind = "outputs"
    /\ OutputOrder(self) = <<"a", "b">>
    /\ x.shape = <<2, 2, 2>>

C10_OrderingsFixed ==
    \A a \in Adapters :
        adapter[a].constructed =>
            /\ FeatureOrder(a) = given[a].feature_order
            /\ OutputOrder(a) = given[a].output_order

====
